---- MODULE Spec2Model ----
(***************************************************************************)
(* SparseVector<T>: a dense value store (objects) plus a sparse index map  *)
(* (indices, one std::optional<uint32_t> per sparse index) and max_index.  *)
(* T is instantiated as int, as in the test suite.  Every public member    *)
(* function is an operator from a container record to the container        *)
(* record after the call; the actions apply these operators.               *)
(***************************************************************************)
EXTENDS Integers, Sequences, FiniteSets, TLC

\* ---------------------------------------------------------------- bounds
\* Sparse indices passed to the members are 0..MaxPos.
MaxPos == 2
\* std::nullopt, as an element of indices (and of the ghost `stored`).
NullOpt == -1
\* T() for T = int, what objects.emplace_back() appends.
DefaultT == 0

Pos == 0..MaxPos
\* The container never inspects a T: two values, the value-initialised one
\* and another, tell any two elements apart.
Values == {DefaultT, DefaultT + 1}
\* The longest indices and objects a run builds.
MaxLen == MaxPos + 1
MaxObjs == MaxPos + 1

VARIABLES
    objects,     \* std::vector<T> objects
    indices,     \* std::vector<std::optional<uint32_t>> indices
    max_index,   \* size_t max_index
    ocap,        \* objects.capacity()
    ub,          \* TRUE once a call has had undefined behaviour
    stored,      \* ghost: the value last stored at each index by sv[i] = v
                 \* or insert(i, v) and not erased since (NullOpt if none)
    last,        \* ghost: the observed call, [op, pos, val, ret]
    phase,       \* ghost: "build", "done" or "again"
    snap,        \* ghost: the container before the observed call
    other,       \* a second SparseVector, the argument of swap
    osnap        \* ghost: the second container before the observed call

cvars == <<objects, indices, max_index, ocap, ub>>
vars ==
    <<objects, indices, max_index, ocap, ub, stored, last, phase, snap,
      other, osnap>>

\* The container as one record.
Self ==
    [objects |-> objects, indices |-> indices, max_index |-> max_index,
     ocap |-> ocap, ub |-> ub]

\* The container becomes s.
Becomes(s) ==
    /\ objects' = s.objects
    /\ indices' = s.indices
    /\ max_index' = s.max_index
    /\ ocap' = s.ocap
    /\ ub' = s.ub

Max(a, b) == IF a >= b THEN a ELSE b

\* ------------------------------------------------------------ std::vector
\* indices.resize(n): truncates, or appends std::nullopt.
VecResize(seq, n) ==
    IF n <= Len(seq) THEN SubSeq(seq, 1, n)
    ELSE seq \o [k \in 1..(n - Len(seq)) |-> NullOpt]

\* Mutant of VecErase: the last element is removed instead of the one at d.
VecErase_Last(seq, d) == SubSeq(seq, 1, Len(seq) - 1)

\* objects.erase(objects.begin() + d): the elements after d shift left.
VecErase(seq, d) ==
    [k \in 1..(Len(seq) - 1) |-> IF k <= d THEN seq[k] ELSE seq[k + 1]]

\* Capacity after an append to a vector of `size` elements and capacity
\* `cap`: unchanged while there is room, else doubled (1 when empty).
GrowCap(cap, size) ==
    IF size < cap THEN cap ELSE IF size = 0 THEN 1 ELSE 2 * size

\* std::optional::has_value
has_value(e) == e # NullOpt

\* A default-constructed container, and one constructed with SparseVector(n).
Constructed(n) ==
    [objects |-> <<>>, indices |-> [k \in 1..n |-> NullOpt], max_index |-> 0,
     ocap |-> 0, ub |-> FALSE]

\* -------------------------------------------------------------- observers
size(s) == Len(s.objects)

empty(s) == Len(s.objects) = 0

capacity(s) == s.ocap

contains(s, pos) ==
    pos < Len(s.indices) /\ has_value(s.indices[pos + 1])

\* The sparse indices whose Mapping Entry is occupied.
Occupied(s) == {i \in 0..(Len(s.indices) - 1) : has_value(s.indices[i + 1])}

\* objects[d] is a valid subscript.
InRange(s, d) == d >= 0 /\ d < Len(s.objects)

\* at(pos): "throw" for std::out_of_range, "ub" when the subscript
\* objects[*indices[pos]] is out of range, else the element.
at(s, pos) ==
    IF pos >= Len(s.indices) \/ ~has_value(s.indices[pos + 1])
    THEN [kind |-> "throw", v |-> NullOpt]
    ELSE IF ~InRange(s, s.indices[pos + 1])
         THEN [kind |-> "ub", v |-> NullOpt]
         ELSE [kind |-> "value", v |-> s.objects[s.indices[pos + 1] + 1]]

\* back(): objects.back(), undefined on an empty objects.
back(s) ==
    IF Len(s.objects) = 0
    THEN [kind |-> "ub", v |-> NullOpt]
    ELSE [kind |-> "value", v |-> s.objects[Len(s.objects)]]

\* ---------------------------------------------------------------- mutators
\* T& operator[](size_t pos).  The returned reference objects[*indices[pos]]
\* is undefined when the entry holds a position outside objects.
operator_subscript(s, pos) ==
    LET mi == IF pos > s.max_index THEN pos ELSE s.max_index
        ix == IF pos >= Len(s.indices) THEN VecResize(s.indices, pos + 1)
              ELSE s.indices
    IN  IF ~has_value(ix[pos + 1])
        THEN [s EXCEPT !.max_index = mi,
                       !.indices = [ix EXCEPT ![pos + 1] = Len(s.objects)],
                       !.objects = Append(s.objects, DefaultT),
                       !.ocap = GrowCap(s.ocap, Len(s.objects))]
        ELSE [s EXCEPT !.max_index = mi,
                       !.indices = ix,
                       !.ub = ~InRange(s, ix[pos + 1])]

\* sv[pos] = value: operator[] and a store through the returned reference.
subscript_assign(s, pos, value) ==
    LET t == operator_subscript(s, pos)
    IN  IF t.ub THEN t
        ELSE [t EXCEPT !.objects[t.indices[pos + 1] + 1] = value]

\* void insert(size_t pos, const T& value)
insert(s, pos, value) ==
    LET mi == IF pos > s.max_index THEN pos ELSE s.max_index
        ix == IF pos >= Len(s.indices) THEN VecResize(s.indices, pos + 1)
              ELSE s.indices
    IN  IF ~has_value(ix[pos + 1])
        THEN [s EXCEPT !.max_index = mi,
                       !.indices = [ix EXCEPT ![pos + 1] = Len(s.objects)],
                       !.objects = Append(s.objects, value),
                       !.ocap = GrowCap(s.ocap, Len(s.objects))]
        ELSE IF ~InRange(s, ix[pos + 1])
             THEN [s EXCEPT !.max_index = mi, !.indices = ix, !.ub = TRUE]
             ELSE [s EXCEPT !.max_index = mi,
                            !.indices = ix,
                            !.objects[ix[pos + 1] + 1] = value]

\* Mutant of ShiftDown: the loop is missing, no entry is decremented.
ShiftDown_None(ix, obj_index) == ix

\* Mutant of ShiftDown: every entry above 0 is decremented, also those below
\* obj_index.
ShiftDown_All(ix, obj_index) ==
    [k \in 1..Len(ix) |->
        IF has_value(ix[k]) /\ ix[k] > 0 THEN ix[k] - 1 ELSE ix[k]]

\* The loop of erase: every entry above obj_index is decremented.
ShiftDown(ix, obj_index) ==
    [k \in 1..Len(ix) |->
        IF has_value(ix[k]) /\ ix[k] > obj_index THEN ix[k] - 1 ELSE ix[k]]

\* Mutant of erase: an index at or beyond the length of indices grows indices,
\* as operator[] and insert do.
erase_Grows(s, pos) ==
    IF pos < Len(s.indices) /\ has_value(s.indices[pos + 1])
    THEN LET obj_index == s.indices[pos + 1]
         IN  IF ~InRange(s, obj_index)
             THEN [s EXCEPT !.ub = TRUE]
             ELSE [s EXCEPT
                     !.objects = VecErase(s.objects, obj_index),
                     !.indices = ShiftDown(
                         [s.indices EXCEPT ![pos + 1] = NullOpt], obj_index)]
    ELSE IF pos >= Len(s.indices)
         THEN [s EXCEPT !.indices = VecResize(s.indices, pos + 1)]
         ELSE s

\* void erase(size_type pos).  objects.erase(objects.begin() + obj_index) is
\* undefined when obj_index is not a position of objects.
erase(s, pos) ==
    IF pos < Len(s.indices) /\ has_value(s.indices[pos + 1])
    THEN LET obj_index == s.indices[pos + 1]
         IN  IF ~InRange(s, obj_index)
             THEN [s EXCEPT !.ub = TRUE]
             ELSE [s EXCEPT
                     !.objects = VecErase(s.objects, obj_index),
                     !.indices = ShiftDown(
                         [s.indices EXCEPT ![pos + 1] = NullOpt], obj_index)]
    ELSE s

\* Mutant of push_back: the new element gets no entry in indices.
push_back_NoEntry(s, value) ==
    [s EXCEPT !.objects = Append(s.objects, value),
              !.ocap = GrowCap(s.ocap, Len(s.objects))]

\* Mutant of push_back: the new entry holds indices.size(), not
\* objects.size().
push_back_EntryIsIndex(s, value) ==
    [s EXCEPT !.objects = Append(s.objects, value),
              !.indices = Append(s.indices, Len(s.indices)),
              !.ocap = GrowCap(s.ocap, Len(s.objects))]

\* void push_back(const T& value)
push_back(s, value) ==
    [s EXCEPT !.objects = Append(s.objects, value),
              !.indices = Append(s.indices, Len(s.objects)),
              !.ocap = GrowCap(s.ocap, Len(s.objects))]

\* The while loop of pop_back: trailing std::nullopt entries are dropped.
RECURSIVE TrimTrailing(_)
TrimTrailing(ix) ==
    IF Len(ix) > 0 /\ ~has_value(ix[Len(ix)])
    THEN TrimTrailing(SubSeq(ix, 1, Len(ix) - 1))
    ELSE ix

\* void pop_back()
pop_back(s) ==
    IF Len(s.objects) > 0
    THEN LET ix == TrimTrailing(s.indices)
         IN  [s EXCEPT
                 !.objects = SubSeq(s.objects, 1, Len(s.objects) - 1),
                 !.indices = IF Len(ix) > 0
                             THEN [ix EXCEPT ![Len(ix)] = NullOpt]
                             ELSE ix]
    ELSE s

\* void reserve(size_type new_cap)
reserve(s, new_cap) ==
    LET t == IF new_cap > s.max_index
             THEN [s EXCEPT !.indices = VecResize(s.indices, new_cap),
                            !.max_index = new_cap - 1]
             ELSE s
    IN  [t EXCEPT !.ocap = Max(s.ocap, Max(new_cap, Len(s.objects)))]

\* Mutant of shrink_to_fit: objects.shrink_to_fit() is not called.
shrink_to_fit_IndicesOnly(s) ==
    [s EXCEPT !.indices = VecResize(s.indices, s.max_index + 1)]

\* void shrink_to_fit()
shrink_to_fit(s) ==
    [s EXCEPT !.ocap = Len(s.objects),
              !.indices = VecResize(s.indices, s.max_index + 1)]

\* Mutant of clear: indices is not cleared.
clear_ObjectsOnly(s) == [s EXCEPT !.objects = <<>>]

\* void clear()
clear(s) == [s EXCEPT !.objects = <<>>, !.indices = <<>>]

\* void resize(size_type count)
resize(s, count) == [s EXCEPT !.indices = VecResize(s.indices, count)]

\* void swap(SparseVector& other): the two containers after the call.
swap(s, o) ==
    [self |-> [s EXCEPT !.objects = o.objects, !.ocap = o.ocap,
                        !.indices = o.indices],
     other |-> [o EXCEPT !.objects = s.objects, !.ocap = s.ocap,
                         !.indices = s.indices]]

\* ---------------------------------------------------------------- iterator
\* Iterator::advance_to_valid, from current_index = cur.
RECURSIVE advance_to_valid(_, _)
advance_to_valid(s, cur) ==
    IF cur <= s.max_index
       /\ (cur >= Len(s.indices) \/ ~has_value(s.indices[cur + 1]))
    THEN advance_to_valid(s, cur + 1)
    ELSE cur

\* begin() and end(): Iterator(this, 0) and Iterator(this, max_index + 1).
begin(s) == advance_to_valid(s, 0)

end(s) == advance_to_valid(s, s.max_index + 1)

\* Iterator::operator++
increment(s, cur) == advance_to_valid(s, cur + 1)

\* The current_index of every dereferenced position of
\* for (it = begin(); it != end(); ++it), in order, starting at cur.
RECURSIVE Visit(_, _)
Visit(s, cur) ==
    IF cur = end(s) THEN <<>> ELSE <<cur>> \o Visit(s, increment(s, cur))

Visited(s) == Visit(s, begin(s))

\* Iterator::operator*: the result of at() without its bounds check.
deref(s, cur) ==
    IF cur >= Len(s.indices) \/ ~has_value(s.indices[cur + 1])
       \/ ~InRange(s, s.indices[cur + 1])
    THEN [kind |-> "ub", v |-> NullOpt]
    ELSE [kind |-> "value", v |-> s.objects[s.indices[cur + 1] + 1]]

\* The values yielded by for (it = begin(); it != end(); ++it) *it, in order.
Yielded(s) == [k \in 1..Len(Visited(s)) |-> deref(s, Visited(s)[k])]

\* iterator find(size_type pos): the current_index of the returned iterator.
find(s, pos) ==
    IF pos < Len(s.indices) /\ has_value(s.indices[pos + 1])
    THEN advance_to_valid(s, pos)
    ELSE end(s)

\* for (it = <iterator at cur>; it != end(); ++it) leaves the loop after at
\* most k increments, with current_index never above max_index + 1 on the
\* way.  current_index is a size_t; from an index of the model it cannot
\* wrap around within k <= max_index + 1 increments.
RECURSIVE ReachesEnd(_, _, _)
ReachesEnd(s, cur, k) ==
    /\ cur <= s.max_index + 1
    /\ \/ cur = end(s)
       \/ k > 0 /\ ReachesEnd(s, increment(s, cur), k - 1)

\* ------------------------------------------------------------------ ghosts
NoCall == [op |-> "none", pos |-> 0, val |-> 0, ret |-> "none"]

Call(op, pos, val, ret) == [op |-> op, pos |-> pos, val |-> val, ret |-> ret]

NoStored == [i \in Pos |-> NullOpt]

\* -------------------------------------------------------------------- init
InitGhost ==
    /\ stored = NoStored
    /\ last = NoCall
    /\ phase = "build"
    /\ snap = Constructed(0)
    /\ other = Constructed(0)
    /\ osnap = Constructed(0)

\* SparseVector() = default
InitDefault ==
    /\ objects = Constructed(0).objects
    /\ indices = Constructed(0).indices
    /\ max_index = Constructed(0).max_index
    /\ ocap = Constructed(0).ocap
    /\ ub = Constructed(0).ub
    /\ InitGhost

\* SparseVector() or SparseVector(n)
Init ==
    /\ \E n \in 0..MaxLen :
        /\ objects = Constructed(n).objects
        /\ indices = Constructed(n).indices
        /\ max_index = Constructed(n).max_index
        /\ ocap = Constructed(n).ocap
        /\ ub = Constructed(n).ub
    /\ InitGhost

\* ----------------------------------------------------------------- actions
\* Nothing is modelled after undefined behaviour.
\* sv[pos];
Subscript(pos) ==
    /\ ~ub
    /\ Becomes(operator_subscript(Self, pos))

\* sv[pos] = value;
SubscriptAssign(pos, value) ==
    /\ ~ub
    /\ Becomes(subscript_assign(Self, pos, value))

\* sv.insert(pos, value);
Insert(pos, value) ==
    /\ ~ub
    /\ Becomes(insert(Self, pos, value))

\* sv.erase(pos);
Erase(pos) ==
    /\ ~ub
    /\ Becomes(erase(Self, pos))

\* sv.at(pos);  the container is only read.
At(pos) ==
    /\ ~ub
    /\ Becomes([Self EXCEPT !.ub = (at(Self, pos).kind = "ub")])

\* sv.push_back(value);
PushBack(value) ==
    /\ ~ub
    /\ Becomes(push_back(Self, value))

\* sv.pop_back();
PopBack ==
    /\ ~ub
    /\ Becomes(pop_back(Self))

\* sv.reserve(new_cap);
Reserve(new_cap) ==
    /\ ~ub
    /\ Becomes(reserve(Self, new_cap))

\* sv.shrink_to_fit();
ShrinkToFit ==
    /\ ~ub
    /\ Becomes(shrink_to_fit(Self))

\* sv.clear();
Clear ==
    /\ ~ub
    /\ Becomes(clear(Self))

\* sv.resize(count);
Resize(count) ==
    /\ ~ub
    /\ Becomes(resize(Self, count))

\* ------------------------------------------------------------ observation
\* A run builds a container with unobserved calls (phase "build"), then makes
\* one observed call (phase "done": snap is the container before it and last
\* the call), and for two-call properties a second one (phase "again").
\* Building stops short of MaxObjs elements and MaxLen entries; the observed
\* calls are not bounded.
Build(A) ==
    /\ phase = "build"
    /\ A
    /\ Len(objects') <= MaxObjs
    /\ Len(indices') <= MaxLen
    /\ UNCHANGED <<phase, snap, last, other, osnap>>

Observe(A, call) ==
    /\ phase = "build"
    /\ A
    /\ phase' = "done"
    /\ snap' = Self
    /\ last' = call
    /\ UNCHANGED <<other, osnap>>

Then(A, first, call) ==
    /\ phase = "done"
    /\ last.op = first
    /\ A
    /\ phase' = "again"
    /\ last' = call
    /\ UNCHANGED <<snap, other, osnap>>

\* erase(pos), observed; ret tells whether the entry was occupied.
ObserveErase(pos) ==
    Observe(Erase(pos),
            Call("erase", pos, 0, IF contains(Self, pos) THEN "hit" ELSE "miss"))

\* erase(pos) once more, after an observed erase(pos).
EraseAgain ==
    Then(Erase(last.pos), "erase", Call("erase", last.pos, 0, "miss"))

\* at(pos), observed; ret is the outcome and val the value read.
ObserveAt(pos) ==
    Observe(At(pos), Call("at", pos, at(Self, pos).v, at(Self, pos).kind))

\* push_back(value), observed, and the pop_back() that follows it.
ObservePushBack(value) ==
    Observe(PushBack(value), Call("push_back", 0, value, "none"))

ThenPopBack ==
    Then(PopBack, "push_back", Call("pop_back", 0, last.val, "none"))

\* clear(), observed, and the shrink_to_fit() that follows it.
ObserveClear == Observe(Clear, Call("clear", 0, 0, "none"))

ThenShrinkToFit ==
    Then(ShrinkToFit, "clear", Call("shrink_to_fit", 0, 0, "none"))

\* reserve(new_cap) and shrink_to_fit(), observed.
ObserveReserve(new_cap) ==
    Observe(Reserve(new_cap), Call("reserve", new_cap, 0, "none"))

ObserveShrinkToFit ==
    Observe(ShrinkToFit, Call("shrink_to_fit", 0, 0, "none"))

\* other.insert(pos, value), while the two containers are built.
OtherInsert(pos, value) ==
    /\ phase = "build"
    /\ ~other.ub
    /\ other' = insert(other, pos, value)
    /\ UNCHANGED <<cvars, stored, last, phase, snap, osnap>>

\* sv.swap(other), observed.
ObserveSwap ==
    /\ phase = "build"
    /\ ~ub
    /\ ~other.ub
    /\ Becomes(swap(Self, other).self)
    /\ other' = swap(Self, other).other
    /\ phase' = "done"
    /\ snap' = Self
    /\ osnap' = other
    /\ last' = Call("swap", 0, 0, "none")

\* sv[pos] and sv.insert(pos, value), observed; ret tells whether the entry
\* was occupied.
ObserveSubscript(pos) ==
    Observe(Subscript(pos),
            Call("operator[]", pos, 0,
                 IF contains(Self, pos) THEN "hit" ELSE "miss"))

ObserveInsert(pos, value) ==
    Observe(Insert(pos, value),
            Call("insert", pos, value,
                 IF contains(Self, pos) THEN "hit" ELSE "miss"))

\* A call that addresses index last.pos, and the calls made after it.
Address(A, call) ==
    /\ phase = "build"
    /\ A
    /\ phase' = "done"
    /\ last' = call
    /\ UNCHANGED <<snap, other, osnap>>

Later(A) ==
    /\ phase \in {"done", "again"}
    /\ A
    /\ Len(objects') <= MaxObjs
    /\ Len(indices') <= MaxLen
    /\ phase' = "again"
    /\ UNCHANGED <<last, snap, other, osnap>>

\* sv[pos] or sv.insert(pos, value), the addressing call.
AddressIndex(pos) ==
    \/ Address(Subscript(pos), Call("operator[]", pos, 0, "none"))
    \/ \E value \in Values :
           Address(Insert(pos, value), Call("insert", pos, value, "none"))

\* The calls after it: operator[], insert, erase, push_back, pop_back and
\* reserve.
LaterCalls ==
    \/ \E pos \in Pos : Later(Subscript(pos))
    \/ \E pos \in Pos, v \in Values : Later(SubscriptAssign(pos, v))
    \/ \E pos \in Pos, v \in Values : Later(Insert(pos, v))
    \/ \E pos \in Pos : Later(Erase(pos))
    \/ \E v \in Values : Later(PushBack(v))
    \/ Later(PopBack)
    \/ \E n \in 0..MaxLen : Later(Reserve(n))

\* ---------------------------------------------------------- specifications
\* The calls that build a container with operator[], insert and erase;
\* `stored` follows the stores and the erasures.
BuildWIE ==
    \/ \E pos \in Pos : Build(Subscript(pos)) /\ UNCHANGED stored
    \/ \E pos \in Pos, v \in Values :
        /\ Build(SubscriptAssign(pos, v))
        /\ stored' = [stored EXCEPT ![pos] = v]
    \/ \E pos \in Pos, v \in Values :
        /\ Build(Insert(pos, v))
        /\ stored' = [stored EXCEPT ![pos] = v]
    \/ \E pos \in Pos :
        /\ Build(Erase(pos))
        /\ stored' = [stored EXCEPT ![pos] = NullOpt]

\* The calls that build a container with every mutating member but resize.
BuildNoResize ==
    \/ \E pos \in Pos : Build(Subscript(pos)) /\ UNCHANGED stored
    \/ \E pos \in Pos, v \in Values :
        Build(SubscriptAssign(pos, v)) /\ UNCHANGED stored
    \/ \E pos \in Pos, v \in Values : Build(Insert(pos, v)) /\ UNCHANGED stored
    \/ \E pos \in Pos : Build(Erase(pos)) /\ UNCHANGED stored
    \/ \E v \in Values : Build(PushBack(v)) /\ UNCHANGED stored
    \/ Build(PopBack) /\ UNCHANGED stored
    \/ \E n \in 0..MaxLen : Build(Reserve(n)) /\ UNCHANGED stored
    \/ Build(ShrinkToFit) /\ UNCHANGED stored
    \/ Build(Clear) /\ UNCHANGED stored

\* The calls that build a container with every mutating member.
BuildAll ==
    \/ BuildNoResize
    \/ \E n \in 0..MaxLen : Build(Resize(n)) /\ UNCHANGED stored

\* Every mutating member from either constructor, then an observed erase
\* (and the same erase again).
Next ==
    \/ BuildAll
    \/ \E pos \in 0..MaxLen : ObserveErase(pos) /\ UNCHANGED stored
    \/ EraseAgain /\ UNCHANGED stored

Spec == Init /\ [][Next]_vars

\* Every mutating member from either constructor, then an observed at().
NextAt ==
    \/ BuildAll
    \/ \E pos \in 0..MaxLen : ObserveAt(pos) /\ UNCHANGED stored

SpecAt == Init /\ [][NextAt]_vars

\* Every mutating member but resize, on a default-constructed container.
SpecNoResize == InitDefault /\ [][BuildNoResize]_vars

\* operator[], insert and erase on a default-constructed container, then an
\* observed erase.
NextWIE ==
    \/ BuildWIE
    \/ \E pos \in Pos :
        /\ ObserveErase(pos)
        /\ stored' = [stored EXCEPT ![pos] = NullOpt]

SpecWIE == InitDefault /\ [][NextWIE]_vars

\* operator[], insert and erase on a default-constructed container, then
\* push_back(v) and pop_back().
NextPushPop ==
    \/ BuildWIE
    \/ \E v \in Values : ObservePushBack(v) /\ UNCHANGED stored
    \/ ThenPopBack /\ UNCHANGED stored

SpecPushPop == InitDefault /\ [][NextPushPop]_vars

\* Every mutating member from either constructor, then an observed clear()
\* and a shrink_to_fit() after it.
NextClear ==
    \/ BuildAll
    \/ ObserveClear /\ UNCHANGED stored
    \/ ThenShrinkToFit /\ UNCHANGED stored

SpecClear == Init /\ [][NextClear]_vars

\* Every mutating member from either constructor, then an observed
\* reserve(new_cap) or shrink_to_fit().
NextCap ==
    \/ BuildAll
    \/ \E new_cap \in 0..(MaxLen + 1) :
           ObserveReserve(new_cap) /\ UNCHANGED stored
    \/ ObserveShrinkToFit /\ UNCHANGED stored

SpecCap == Init /\ [][NextCap]_vars

\* Two default-constructed containers, one built with operator[], insert and
\* erase and the other with insert, then an observed swap.
NextSwap ==
    \/ BuildWIE
    \/ \E pos \in Pos, value \in Values : OtherInsert(pos, value)
    \/ ObserveSwap /\ UNCHANGED stored

SpecSwap == InitDefault /\ [][NextSwap]_vars

\* Every mutating member from either constructor, then an observed sv[pos]
\* or insert(pos, value).
NextWrite ==
    \/ BuildAll
    \/ \E pos \in 0..MaxLen : ObserveSubscript(pos) /\ UNCHANGED stored
    \/ \E pos \in 0..MaxLen, value \in Values :
           ObserveInsert(pos, value) /\ UNCHANGED stored

SpecWrite == Init /\ [][NextWrite]_vars

\* Every mutating member from either constructor, then an observed
\* push_back(v).
NextPush ==
    \/ BuildAll
    \/ \E v \in Values : ObservePushBack(v) /\ UNCHANGED stored

SpecPush == Init /\ [][NextPush]_vars

\* Every mutating member from either constructor, then a call that addresses
\* an index, then only operator[], insert, erase, push_back, pop_back and
\* reserve.
NextAddr ==
    \/ BuildAll
    \/ \E pos \in Pos : AddressIndex(pos) /\ UNCHANGED stored
    \/ LaterCalls /\ UNCHANGED stored

SpecAddr == Init /\ [][NextAddr]_vars

\* ------------------------------------------------------------------ claims
\* C1: after any sequence of operator[], insert and erase on a
\* default-constructed container, the occupied entries of indices are a
\* bijection onto the positions 0..Len(objects)-1: each holds a position of
\* objects, no two hold the same one, and every position is held.
C1_Bijection ==
    /\ \A i \in Occupied(Self) : InRange(Self, indices[i + 1])
    /\ \A i, j \in Occupied(Self) :
        indices[i + 1] = indices[j + 1] => i = j
    /\ \A d \in 0..(Len(objects) - 1) :
        \E i \in Occupied(Self) : indices[i + 1] = d

\* C1 witness: an erase has just removed an element below another one, whose
\* entry was decremented, and two elements remain.
C1_Witness ==
    /\ phase = "done"
    /\ last.op = "erase"
    /\ last.ret = "hit"
    /\ Cardinality(Occupied(Self)) >= 2
    /\ \E i \in Occupied(Self) : snap.indices[i + 1] = indices[i + 1] + 1

\* C2: a value stored at index i by sv[i] = v or insert(i, v) is what at(i)
\* returns in every later state reached by operator[], insert and erase, until
\* i is erased or stored to again.
C2_RoundTrip ==
    \A i \in Pos :
        stored[i] # NullOpt =>
            at(Self, i) = [kind |-> "value", v |-> stored[i]]

\* C2 witness: an index holding a stored non-default value has just survived
\* the erasure of another index whose dense slot lay before its own, and the
\* removed element held a different value.
C2_Witness ==
    /\ phase = "done"
    /\ last.op = "erase"
    /\ last.ret = "hit"
    /\ \E i \in Pos :
        /\ i # last.pos
        /\ stored[i] # NullOpt
        /\ contains(snap, i)
        /\ snap.indices[i + 1] > snap.indices[last.pos + 1]
        /\ at(snap, last.pos).v # stored[i]

\* The occupied sparse indices in ascending order.
RECURSIVE Ascending(_)
Ascending(set) ==
    IF set = {} THEN <<>>
    ELSE LET m == CHOOSE x \in set : \A y \in set : x <= y
         IN  <<m>> \o Ascending(set \ {m})

\* C3: in every state reached by the public mutating members (resize among
\* them), size() = Len(objects) is the number of occupied entries of indices.
C3_SizeIsOccupiedCount == Len(objects) = Cardinality(Occupied(Self))

\* C4: in every state reached by operator[], insert, erase, push_back,
\* pop_back, reserve, shrink_to_fit and clear, every occupied entry of indices
\* holds a position of objects, so at(), find() and the iterator never
\* subscript objects out of range.
C4_EntriesInRange ==
    \A i \in Occupied(Self) : InRange(Self, indices[i + 1])

\* C5: in every state reached by operator[], insert, erase, push_back,
\* pop_back, reserve, shrink_to_fit and clear, the loop from begin() to end()
\* visits exactly the occupied indices in strictly ascending order, each
\* dereference yields an element of objects, and size() values are yielded.
C5_IterationOrder ==
    /\ Visited(Self) = Ascending(Occupied(Self))
    /\ \A k \in 1..Len(Visited(Self)) :
        deref(Self, Visited(Self)[k]).kind = "value"
    /\ Len(Visited(Self)) = size(Self)

\* C6: at(i) throws exactly when i is at or beyond the length of indices or
\* its entry is unoccupied, otherwise it returns the element for i; either
\* way objects, indices and max_index are as before the call.
C6_AtContract ==
    (phase = "done" /\ last.op = "at") =>
        /\ last.ret = "throw" <=> ~contains(snap, last.pos)
        /\ last.ret # "throw" =>
            /\ last.ret = "value"
            /\ InRange(snap, snap.indices[last.pos + 1])
            /\ last.val = snap.objects[snap.indices[last.pos + 1] + 1]
        /\ objects = snap.objects
        /\ indices = snap.indices
        /\ max_index = snap.max_index

\* C7: erase(i) of an occupied index, in a state reached by operator[], insert
\* and erase: size() drops by one, contains(i) becomes false, every other
\* occupied index stays occupied and reads the same value, entries above i's
\* dense position are decremented and entries below it are unchanged.
C7_EraseFrame ==
    (phase = "done" /\ last.op = "erase" /\ last.ret = "hit") =>
        LET d == snap.indices[last.pos + 1]
        IN  /\ ~ub
            /\ size(Self) = size(snap) - 1
            /\ ~contains(Self, last.pos)
            /\ Occupied(Self) = Occupied(snap) \ {last.pos}
            /\ \A j \in Occupied(snap) \ {last.pos} :
                /\ at(snap, j).kind = "value"
                /\ at(Self, j) = at(snap, j)
                /\ snap.indices[j + 1] > d =>
                    indices[j + 1] = snap.indices[j + 1] - 1
                /\ snap.indices[j + 1] < d =>
                    indices[j + 1] = snap.indices[j + 1]

\* C7 witness: the erased index had one element before it and one after it
\* in objects.
C7_Witness ==
    /\ phase = "done"
    /\ last.op = "erase"
    /\ last.ret = "hit"
    /\ \E j, k \in Occupied(Self) :
        /\ snap.indices[j + 1] < snap.indices[last.pos + 1]
        /\ snap.indices[k + 1] > snap.indices[last.pos + 1]
        /\ at(Self, j).v # at(Self, k).v

\* C8: erase(i) twice in a row leaves the container (objects, indices,
\* max_index) as a single erase(i) does, for every reachable state and every
\* i: both calls have a result, and it is that of the first.
C8_EraseIdempotent ==
    (phase \in {"done", "again"} /\ last.op = "erase") =>
        /\ ~ub
        /\ objects = erase(snap, last.pos).objects
        /\ indices = erase(snap, last.pos).indices
        /\ max_index = erase(snap, last.pos).max_index

\* C9: erase(i) of an index that is unoccupied, or at or beyond the length of
\* indices, changes nothing: objects, indices (its length too) and max_index
\* are as before, and the call has no error.
C9_EraseAbsentNoOp ==
    (phase = "done" /\ last.op = "erase" /\ last.ret = "miss") =>
        /\ ~ub
        /\ objects = snap.objects
        /\ indices = snap.indices
        /\ max_index = snap.max_index

\* C9 witness: erase of an index beyond the length of indices, on a container
\* that holds an element and an unoccupied entry.
C9_Witness ==
    /\ phase = "done"
    /\ last.op = "erase"
    /\ last.ret = "miss"
    /\ last.pos >= Len(indices)
    /\ Len(objects) > 0
    /\ \E i \in 1..Len(indices) : ~has_value(indices[i])

\* C10: push_back(v) then pop_back(), in a state reached by operator[],
\* insert and erase: size() is back to what it was, and every index occupied
\* before is still occupied and reads its value.
C10_PushPopRestores ==
    (phase = "again" /\ last.op = "pop_back") =>
        /\ ~ub
        /\ size(Self) = size(snap)
        /\ \A i \in Occupied(snap) :
            /\ contains(Self, i)
            /\ at(snap, i).kind = "value"
            /\ at(Self, i) = at(snap, i)

\* C10 witness: the container held an element at its highest index, with a
\* value other than the one pushed and popped.
C10_Witness ==
    /\ phase = "again"
    /\ last.op = "pop_back"
    /\ Len(snap.indices) > 1
    /\ contains(snap, Len(snap.indices) - 1)
    /\ at(snap, Len(snap.indices) - 1).v # last.val

\* C11: after clear() in any reachable state size() is 0, empty() is true,
\* contains(i) is false for every i, begin() equals end(), and objects and
\* indices both have length 0.
C11_ClearEmpties ==
    (phase = "done" /\ last.op = "clear") =>
        /\ ~ub
        /\ size(Self) = 0
        /\ empty(Self)
        /\ \A i \in 0..(MaxLen + 1) : ~contains(Self, i)
        /\ begin(Self) = end(Self)
        /\ Len(objects) = 0
        /\ Len(indices) = 0

\* C11 witness: clear() of a container with two elements whose max_index is
\* above 0, so that begin() has indices to skip.
C11_Witness ==
    /\ phase = "done"
    /\ last.op = "clear"
    /\ size(snap) >= 2
    /\ Cardinality(Occupied(snap)) >= 2
    /\ max_index >= 1

\* C12: clear() resets max_index to 0, so that after it the end sentinel is
\* index 1 and a following shrink_to_fit() leaves indices with length 1.
C12_ClearResetsMaxIndex ==
    /\ (phase = "done" /\ last.op = "clear") =>
        max_index = 0 /\ end(Self) = 1
    /\ (phase = "again" /\ last.op = "shrink_to_fit") =>
        max_index = 0 /\ Len(indices) = 1

\* C13: reserve(n) never reduces the length of indices: in every reachable
\* state, if n > max_index then indices gets length n and max_index becomes
\* n - 1, if n <= max_index then indices and max_index are unchanged, and
\* either way indices is at least as long afterwards as before.
C13_ReserveNeverShrinks ==
    (phase = "done" /\ last.op = "reserve") =>
        /\ last.pos > snap.max_index =>
               Len(indices) = last.pos /\ max_index = last.pos - 1
        /\ last.pos <= snap.max_index =>
               indices = snap.indices /\ max_index = snap.max_index
        /\ Len(indices) >= Len(snap.indices)

\* C14: shrink_to_fit() only trims: in every reachable state, afterwards the
\* length of indices is exactly max_index + 1 and is not greater than it was
\* before the call.
C14_ShrinkOnlyTrims ==
    (phase = "done" /\ last.op = "shrink_to_fit") =>
        /\ Len(indices) = max_index + 1
        /\ Len(indices) <= Len(snap.indices)

C15_FindAgreesWithContains ==
    \A i \in 0..MaxLen :
        /\ (find(Self, i) # end(Self)) <=> contains(Self, i)
        /\ contains(Self, i) =>
               /\ deref(Self, find(Self, i)).kind = "value"
               /\ deref(Self, find(Self, i)) = at(Self, i)

\* C16: a.swap(b) exchanges the complete contents of the two containers:
\* size(), contains(i) and at(i) for every i, and the values yielded by
\* iterating begin()..end(), of a afterwards equal those of b before the
\* call, and those of b afterwards equal those of a before the call.
C16_SwapExchangesContents ==
    (phase = "done" /\ last.op = "swap") =>
        /\ size(Self) = size(osnap)
        /\ size(other) = size(snap)
        /\ \A i \in 0..MaxLen :
               /\ contains(Self, i) = contains(osnap, i)
               /\ contains(other, i) = contains(snap, i)
               /\ at(Self, i) = at(osnap, i)
               /\ at(other, i) = at(snap, i)
        /\ Yielded(Self) = Yielded(osnap)
        /\ Yielded(other) = Yielded(snap)

\* C18: sv[i] on an unoccupied index i increases size() by exactly 1, makes
\* i occupied with entry equal to the previous length of objects, makes the
\* length of indices max(old length, i + 1) and max_index max(old max_index,
\* i), and leaves the entry and the value of every previously occupied index
\* as they were; sv[i] on an occupied index i changes nothing in the
\* container.
C18_WriteFrame ==
    (phase = "done" /\ last.op = "operator[]") =>
        /\ ~ub
        /\ last.ret = "miss" =>
               /\ size(Self) = size(snap) + 1
               /\ contains(Self, last.pos)
               /\ indices[last.pos + 1] = Len(snap.objects)
               /\ Len(indices) = Max(Len(snap.indices), last.pos + 1)
               /\ max_index = Max(snap.max_index, last.pos)
               /\ \A j \in Occupied(snap) :
                      /\ indices[j + 1] = snap.indices[j + 1]
                      /\ at(snap, j).kind = "value" => at(Self, j) = at(snap, j)
        /\ last.ret = "hit" =>
               /\ objects = snap.objects
               /\ indices = snap.indices
               /\ max_index = snap.max_index

\* C19: from every reachable state and for every i and v, insert(i, v) and
\* sv[i] = v produce the same objects, indices and max_index; when i is
\* already occupied, size() and every entry of indices are unchanged and only
\* the value at i changes.
C19_InsertIsWriteAssign ==
    (phase = "done" /\ last.op = "insert") =>
        LET w == subscript_assign(snap, last.pos, last.val)
        IN  /\ ~ub
            /\ ~w.ub
            /\ objects = w.objects
            /\ indices = w.indices
            /\ max_index = w.max_index
            /\ last.ret = "hit" =>
                   /\ size(Self) = size(snap)
                   /\ indices = snap.indices
                   /\ at(Self, last.pos).kind = "value"
                   /\ at(Self, last.pos).v = last.val
                   /\ \A d \in 1..Len(objects) :
                          d # snap.indices[last.pos + 1] + 1 =>
                              objects[d] = snap.objects[d]

C21_MapCoversAddressed ==
    (phase \in {"done", "again"} /\ last.op \in {"operator[]", "insert"}) =>
        Len(indices) > last.pos

\* C22: reserve(n) and shrink_to_fit() preserve the contents in every
\* reachable state, states built with push_back included: size(), the set of
\* occupied indices and the value at each occupied index are the same after
\* the call as before it.
C22_CapacityCallsPreserveContents ==
    (phase = "done" /\ last.op \in {"reserve", "shrink_to_fit"}) =>
        /\ ~ub
        /\ size(Self) = size(snap)
        /\ Occupied(Self) = Occupied(snap)
        /\ \A j \in Occupied(snap) : at(Self, j) = at(snap, j)

\* C23: in every reachable state an iterator obtained from begin() or from
\* find(i) reaches a position equal to end() after at most max_index + 1
\* increments, and its current index never exceeds max_index + 1.
C23_IterationTerminates ==
    /\ ReachesEnd(Self, begin(Self), max_index + 1)
    /\ \A i \in 0..MaxLen : ReachesEnd(Self, find(Self, i), max_index + 1)

====
